---- MODULE Spec2Model ----
(***************************************************************************)
(* Model of the clinical validation engine:                                *)
(*   src/src/clinical/patient_validator.py       PatientValidator          *)
(*   src/src/clinical/adverse_event_processor.py AdverseEventProcessor     *)
(*                                                                         *)
(* Python values are records [t, s, n, b]; a mapping is a function from    *)
(* field names to values, with VAbsent for a key that is not present.      *)
(* An error message is a sequence of string tokens whose concatenation is  *)
(* the Python string; every occurrence of a field name is its own token,   *)
(* so "the message mentions field f" is "some token equals f".             *)
(***************************************************************************)
EXTENDS Integers, Sequences, FiniteSets, TLC

\* ------------------------------------------------------------------ bounds
\* datetime.now() takes the values Now(0) .. Now(MaxClock)
MaxClock == 2
\* number of rows of a batch source
MaxRows == 3
\* number of records of a batch validated with one instance
MaxBatch == 2
\* number of validation calls made on a batch
MaxBatchCalls == 3

\* ------------------------------------------------------------ Python values
VAbsent == [t |-> "absent", s |-> "", n |-> 0, b |-> FALSE]
VNone == [t |-> "none", s |-> "", n |-> 0, b |-> FALSE]
VStr(x) == [t |-> "str", s |-> x, n |-> 0, b |-> FALSE]
VInt(k) == [t |-> "int", s |-> "", n |-> k, b |-> FALSE]
VBool(x) == [t |-> "bool", s |-> "", n |-> 0, b |-> x]

\* str(v), as an f-string formats a value
Str(v) ==
  CASE v.t = "none" -> "None"
    [] v.t = "str" -> v.s
    [] v.t = "int" -> ToString(v.n)
    [] v.t = "bool" -> IF v.b THEN "True" ELSE "False"

\* repr(v), as jsonschema formats an instance (!r): a string is quoted
Repr(v) ==
  IF v.t = "str" THEN <<"'", v.s, "'">> ELSE <<Str(v)>>

\* the characters of the string literals the model uses where the code
\* looks inside a string (regular expressions, date parsing)
Chars(x) ==
  CASE x = "" -> <<>>
    [] x = "PAT000001" -> <<"P", "A", "T", "0", "0", "0", "0", "0", "1">>
    [] x = "PAT00001" -> <<"P", "A", "T", "0", "0", "0", "0", "1">>
    [] x = "SITE001" -> <<"S", "I", "T", "E", "0", "0", "1">>
    [] x = "site001" -> <<"s", "i", "t", "e", "0", "0", "1">>
    [] x = "2024-01-15" -> <<"2", "0", "2", "4", "-", "0", "1", "-", "1", "5">>
    [] x = "2024-01-15T12:00" ->
         <<"2", "0", "2", "4", "-", "0", "1", "-", "1", "5", "T",
           "1", "2", ":", "0", "0">>
    [] x = "2024-01-15T00:00+00:00" ->
         <<"2", "0", "2", "4", "-", "0", "1", "-", "1", "5", "T",
           "0", "0", ":", "0", "0", "+", "0", "0", ":", "0", "0">>
    [] x = "15/01/2024" -> <<"1", "5", "/", "0", "1", "/", "2", "0", "2", "4">>

Digits == {"0", "1", "2", "3", "4", "5", "6", "7", "8", "9"}

DigitVal(c) ==
  CASE c = "0" -> 0 [] c = "1" -> 1 [] c = "2" -> 2 [] c = "3" -> 3
    [] c = "4" -> 4 [] c = "5" -> 5 [] c = "6" -> 6 [] c = "7" -> 7
    [] c = "8" -> 8 [] c = "9" -> 9

AllDigits(cs) == \A i \in 1..Len(cs) : cs[i] \in Digits

RECURSIVE Num(_)
Num(cs) ==
  IF cs = <<>> THEN 0
  ELSE 10 * Num(SubSeq(cs, 1, Len(cs) - 1)) + DigitVal(cs[Len(cs)])

\* re.search("^" prefix "[0-9]{n}$", s): "$" also matches before a final newline
PatternSearch(prefix, n, x) ==
  LET cs == Chars(x)
      body == IF Len(cs) = Len(prefix) + n + 1 /\ cs[Len(cs)] = "\n"
              THEN SubSeq(cs, 1, Len(cs) - 1) ELSE cs
  IN /\ Len(body) = Len(prefix) + n
     /\ SubSeq(body, 1, Len(prefix)) = prefix
     /\ AllDigits(SubSeq(body, Len(prefix) + 1, Len(body)))

\* ----------------------------------------------------------------- datetime
\* a naive datetime is <<year, month, day, hour, minute>>
DaysInMonth(y, m) ==
  IF m \in {4, 6, 9, 11} THEN 30
  ELSE IF m = 2
       THEN (IF y % 4 = 0 /\ (y % 100 # 0 \/ y % 400 = 0) THEN 29 ELSE 28)
       ELSE 31

\* a >= b where the code has a > b
DtGreater_OrEqual(a, b) ==
  \/ a = b
  \/ \E i \in 1..5 : a[i] > b[i] /\ \A j \in 1..(i - 1) : a[j] = b[j]

\* a > b on naive datetimes
DtGreater(a, b) ==
  \E i \in 1..5 : a[i] > b[i] /\ \A j \in 1..(i - 1) : a[j] = b[j]

\* datetime.now() at clock value k: midnight of 14 + k January 2024
Now(k) == <<2024, 1, 14 + k, 0, 0>>

ParseError == [status |-> "ValueError", aware |-> FALSE, dt |-> <<0, 0, 0, 0, 0>>]

\* datetime.fromisoformat on a str: YYYY-MM-DD[*HH:MM[(+|-)HH:MM]]
fromisoformat(x) ==
  LET cs == Chars(x)
      n == Len(cs)
      dateOk == /\ n >= 10
                /\ AllDigits(SubSeq(cs, 1, 4)) /\ cs[5] = "-"
                /\ AllDigits(SubSeq(cs, 6, 7)) /\ cs[8] = "-"
                /\ AllDigits(SubSeq(cs, 9, 10))
      y == Num(SubSeq(cs, 1, 4))
      m == Num(SubSeq(cs, 6, 7))
      d == Num(SubSeq(cs, 9, 10))
      timeOk == /\ n >= 16
                /\ AllDigits(SubSeq(cs, 12, 13)) /\ cs[14] = ":"
                /\ AllDigits(SubSeq(cs, 15, 16))
      H == IF n >= 16 THEN Num(SubSeq(cs, 12, 13)) ELSE 0
      M == IF n >= 16 THEN Num(SubSeq(cs, 15, 16)) ELSE 0
      tzOk == /\ n = 22
              /\ cs[17] \in {"+", "-"}
              /\ AllDigits(SubSeq(cs, 18, 19)) /\ cs[20] = ":"
              /\ AllDigits(SubSeq(cs, 21, 22))
              /\ Num(SubSeq(cs, 18, 19)) <= 23 /\ Num(SubSeq(cs, 21, 22)) <= 59
  IN IF /\ n \in {10, 16, 22}
        /\ dateOk
        /\ y >= 1 /\ m \in 1..12 /\ d >= 1 /\ d <= DaysInMonth(y, m)
        /\ (n >= 16 => timeOk /\ H <= 23 /\ M <= 59)
        /\ (n = 22 => tzOk)
     THEN [status |-> "ok", aware |-> (n = 22), dt |-> <<y, m, d, H, M>>]
     ELSE ParseError

\* -------------------------------------------------------------- inputs
\* an argument of validate / validate_event: a dict (items), or a list, a
\* str, an int or None; for a list or a str, has is the set of field names
\* for which "name in x" is true
PatientFields ==
  <<"patient_id", "age", "gender", "enrollment_date", "site_id", "consent_signed">>

REQUIRED_COLUMNS ==
  <<"event_id", "patient_id", "event_date", "description", "severity">>

\* the levels spelled in lowercase
SEVERITY_LEVELS_Lowercase ==
  <<"mild", "moderate", "severe", "life-threatening", "fatal">>

SEVERITY_LEVELS == <<"Mild", "Moderate", "Severe", "Life-threatening", "Fatal">>

Range(sq) == {sq[i] : i \in 1..Len(sq)}

NoItems == [f \in {} |-> VAbsent]

Dict(items) == [shape |-> "dict", has |-> {}, items |-> items]
NonDict(shape, has) == [shape |-> shape, has |-> has, items |-> NoItems]

\* key in x, for a dict x
HasKey(x, f) == f \in DOMAIN x.items /\ x.items[f].t # "absent"

\* x[key] / x.get(key), for a dict x
GetItem(x, f) == IF HasKey(x, f) THEN x.items[f] ELSE VNone

\* ---------------------------------------------------- jsonschema (Draft 7)
RECURSIVE Flatten(_)
Flatten(seqs) ==
  IF seqs = <<>> THEN <<>> ELSE Head(seqs) \o Flatten(Tail(seqs))

\* error.json_path of an error on property f; "$" for the root
JsonPath(f) == <<"$", ".", f>>

\* f"{error.json_path}: {error.message}"
SchemaMessage(path, message) == path \o <<": ">> \o message

\* "type": "string" | "integer" | "boolean"; a bool is not an integer
IsType(v, type) ==
  CASE type = "string" -> v.t = "str"
    [] type = "integer" -> v.t = "int"
    [] type = "boolean" -> v.t = "bool"

TypeErrors(f, v, type) ==
  IF IsType(v, type) THEN <<>>
  ELSE <<SchemaMessage(JsonPath(f),
           Repr(v) \o <<" is not of type ", "'" \o type \o "'">>)>>

\* "pattern" applies to strings only
PatternErrors(f, v, prefix, n, source) ==
  IF v.t = "str" /\ ~PatternSearch(prefix, n, v.s)
  THEN <<SchemaMessage(JsonPath(f), Repr(v) \o <<" does not match ", source>>)>>
  ELSE <<>>

\* the bound taken as exclusive
MinimumErrors_Exclusive(f, v, minimum) ==
  IF v.t = "int" /\ v.n <= minimum
  THEN <<SchemaMessage(JsonPath(f),
           Repr(v) \o <<" is less than the minimum of ", ToString(minimum)>>)>>
  ELSE <<>>

\* "minimum" / "maximum" apply to numbers only
MinimumErrors(f, v, minimum) ==
  IF v.t = "int" /\ v.n < minimum
  THEN <<SchemaMessage(JsonPath(f),
           Repr(v) \o <<" is less than the minimum of ", ToString(minimum)>>)>>
  ELSE <<>>

MaximumErrors(f, v, maximum) ==
  IF v.t = "int" /\ v.n > maximum
  THEN <<SchemaMessage(JsonPath(f),
           Repr(v) \o <<" is greater than the maximum of ", ToString(maximum)>>)>>
  ELSE <<>>

\* "enum" applies to every instance
EnumErrors(f, v, enums, source) ==
  IF v.t = "str" /\ v.s \in enums THEN <<>>
  ELSE <<SchemaMessage(JsonPath(f), Repr(v) \o <<" is not one of ", source>>)>>

MinAge == 18
MaxAge == 85
Genders == {"M", "F", "O"}

\* SCHEMA["properties"][f] applied to a present value, keyword by keyword;
\* "format": "date" is not asserted (the validator has no format checker)
PropertyErrors(f, v) ==
  CASE f = "patient_id" ->
         TypeErrors(f, v, "string")
           \o PatternErrors(f, v, <<"P", "A", "T">>, 6, "'^PAT[0-9]{6}$'")
    [] f = "age" ->
         TypeErrors(f, v, "integer")
           \o MinimumErrors(f, v, MinAge) \o MaximumErrors(f, v, MaxAge)
    [] f = "gender" ->
         TypeErrors(f, v, "string")
           \o EnumErrors(f, v, Genders, "['M', 'F', 'O']")
    [] f = "enrollment_date" -> TypeErrors(f, v, "string")
    [] f = "site_id" ->
         TypeErrors(f, v, "string")
           \o PatternErrors(f, v, <<"S", "I", "T", "E">>, 3, "'^SITE[0-9]{3}$'")
    [] f = "consent_signed" -> TypeErrors(f, v, "boolean")

\* SCHEMA["required"]: the key must be present, whatever its value
RequiredErrors(x, f) ==
  IF HasKey(x, f) THEN <<>>
  ELSE <<SchemaMessage(<<"$">>, <<"'", f, "'", " is a required property">>)>>

\* repr of an argument that is not a dict
ReprInput(x) ==
  CASE x.shape = "list" -> <<"[...]">>
    [] x.shape = "str" -> <<"'...'">>
    [] x.shape = "int" -> <<"7">>
    [] x.shape = "none" -> <<"None">>

\* self.validator.iter_errors(patient_data), formatted: "type" first, then
\* "properties" in schema order, then "required"
iter_errors(x) ==
  IF x.shape # "dict"
  THEN <<SchemaMessage(<<"$">>, ReprInput(x) \o <<" is not of type ", "'object'">>)>>
  ELSE Flatten([i \in 1..Len(PatientFields) |->
                  IF HasKey(x, PatientFields[i])
                  THEN PropertyErrors(PatientFields[i], x.items[PatientFields[i]])
                  ELSE <<>>])
         \o Flatten([i \in 1..Len(PatientFields) |-> RequiredErrors(x, PatientFields[i])])

\* --------------------------------------------------------------- outcomes
Returned(errors, ok) ==
  [kind |-> "return", exc |-> "", is_valid |-> ok, errors |-> errors]
Raised(exc) ==
  [kind |-> "raise", exc |-> exc, is_valid |-> FALSE, errors |-> <<>>]
NoOutcome ==
  [kind |-> "none", exc |-> "", is_valid |-> FALSE, errors |-> <<>>]

\* a single error still counted as valid
IsValid_AtMostOne(errors) == Len(errors) <= 1

\* len(errors) == 0
IsValid(errors) == Len(errors) = 0

\* ------------------------------------------- PatientValidator.validate
\* what a business rule does: the exception it lets escape ("" if none) and
\* the errors it appends
RuleResult(exc, errors) == [exc |-> exc, errors |-> errors]

\* the comparison with datetime.now() the wrong way round
EnrollmentRule_Reversed(x, k) ==
  IF ~HasKey(x, "enrollment_date") THEN RuleResult("", <<>>)
  ELSE LET v == x.items["enrollment_date"]
           enrollment == fromisoformat(v.s)
       IN IF v.t # "str" THEN RuleResult("TypeError", <<>>)
          ELSE IF enrollment.status = "ValueError"
          THEN RuleResult("", << <<"enrollment_date", ": ", "Invalid date format">> >>)
          ELSE IF enrollment.aware THEN RuleResult("TypeError", <<>>)
          ELSE IF DtGreater(Now(k), enrollment.dt)
          THEN RuleResult("", << <<"enrollment_date", ": ", "Cannot be in the future">> >>)
          ELSE RuleResult("", <<>>)

\* the enrollment_date rule; fromisoformat raises TypeError on a value that
\* is not a str, and comparing an offset-aware datetime with now() does too
EnrollmentRule(x, k) ==
  IF ~HasKey(x, "enrollment_date") THEN RuleResult("", <<>>)
  ELSE LET v == x.items["enrollment_date"]
           enrollment == fromisoformat(v.s)
       IN IF v.t # "str" THEN RuleResult("TypeError", <<>>)
          ELSE IF enrollment.status = "ValueError"
          THEN RuleResult("", << <<"enrollment_date", ": ", "Invalid date format">> >>)
          ELSE IF enrollment.aware THEN RuleResult("TypeError", <<>>)
          ELSE IF DtGreater(enrollment.dt, Now(k))
          THEN RuleResult("", << <<"enrollment_date", ": ", "Cannot be in the future">> >>)
          ELSE RuleResult("", <<>>)

\* patient_data.get("consent_signed") is False
ConsentRule(x) ==
  IF GetItem(x, "consent_signed") = VBool(FALSE)
  THEN << <<"consent_signed", ": ", "Patient must have signed consent">> >>
  ELSE <<>>

\* the business rules run before the schema validation
validate_RulesFirst(x, k) ==
  LET schema == iter_errors(x)
  IN IF x.shape \in {"int", "none"} THEN Raised("TypeError")
     ELSE IF x.shape \in {"list", "str"}
     THEN (IF "enrollment_date" \in x.has
           THEN Raised("TypeError") ELSE Raised("AttributeError"))
     ELSE LET rule == EnrollmentRule(x, k)
              errors == rule.errors \o ConsentRule(x) \o schema
          IN IF rule.exc # "" THEN Raised(rule.exc)
             ELSE Returned(errors, IsValid(errors))

\* validate(patient_data) when datetime.now() is Now(k)
validate(x, k) ==
  LET schema == iter_errors(x)
  IN IF x.shape \in {"int", "none"} THEN Raised("TypeError")
     ELSE IF x.shape \in {"list", "str"}
     THEN (IF "enrollment_date" \in x.has
           THEN Raised("TypeError") ELSE Raised("AttributeError"))
     ELSE LET rule == EnrollmentRule(x, k)
              errors == schema \o rule.errors \o ConsentRule(x)
          IN IF rule.exc # "" THEN Raised(rule.exc)
             ELSE Returned(errors, IsValid(errors))

\* ------------------------------- AdverseEventProcessor.validate_event
\* field not in event or event[field] is None or event[field] == ""
IsMissing(x, f) ==
  \/ ~HasKey(x, f)
  \/ x.items[f].t = "none"
  \/ x.items[f] = VStr("")

MissingErrors(x, f) ==
  IF IsMissing(x, f) THEN << <<"Missing required field", ": ", f>> >> ELSE <<>>

\* event["severity"] not in self.SEVERITY_LEVELS
NotInLevels(v) == ~(v.t = "str" /\ v.s \in Range(SEVERITY_LEVELS))

\* the message given a "severity: " prefix
SeverityErrors_FieldPrefixed(x) ==
  IF HasKey(x, "severity") /\ NotInLevels(x.items["severity"])
  THEN << <<"severity", ": ", "Invalid ", "severity", ": ", Str(x.items["severity"])>> >>
  ELSE <<>>

SeverityErrors(x) ==
  IF HasKey(x, "severity") /\ NotInLevels(x.items["severity"])
  THEN << <<"Invalid ", "severity", ": ", Str(x.items["severity"])>> >>
  ELSE <<>>

validate_event(x) ==
  IF x.shape \in {"int", "none"} THEN Raised("TypeError")
  ELSE IF x.shape \in {"list", "str"}
  THEN (IF x.has \cap Range(REQUIRED_COLUMNS) # {}
        THEN Raised("TypeError")
        ELSE LET errors == [i \in 1..Len(REQUIRED_COLUMNS) |->
                              <<"Missing required field", ": ", REQUIRED_COLUMNS[i]>>]
             IN Returned(errors, IsValid(errors)))
  ELSE LET errors ==
             Flatten([i \in 1..Len(REQUIRED_COLUMNS) |->
                        MissingErrors(x, REQUIRED_COLUMNS[i])])
               \o SeverityErrors(x)
       IN Returned(errors, IsValid(errors))

\* ---------------------------------------------------- batch loader
\* a CSV source: its header (set of column names), its number of data rows
\* and the cells of its severity column (empty when there is no such column)
\* pandas reads an empty cell as NaN (None here)
ReadCell(c) == IF c = "" THEN VNone ELSE VStr(c)

\* pd.read_csv(file_path): a frame with the same columns and rows
read_csv(file) ==
  [columns |-> file.columns, nrows |-> file.nrows,
   severity |-> [i \in 1..Len(file.severity) |-> ReadCell(file.severity[i])]]

NoFrame == [columns |-> {}, nrows |-> 0, severity |-> <<>>]

\* the set difference the wrong way round
missing_cols_Reversed(df) == df.columns \ Range(REQUIRED_COLUMNS)

\* set(self.REQUIRED_COLUMNS) - set(df.columns)
missing_cols(df) == Range(REQUIRED_COLUMNS) \ df.columns

\* load_events(file_path): the frame, or ValueError whose message is
\* "Missing required columns: " followed by the set missing_cols
load_events(file) ==
  LET df == read_csv(file)
  IN IF missing_cols(df) # {}
     THEN [kind |-> "raise", exc |-> "ValueError", named |-> missing_cols(df),
           df |-> NoFrame]
     ELSE [kind |-> "return", exc |-> "", named |-> {}, df |-> df]

\* value_counts(dropna=False): nothing is dropped
isna_Never(v) == FALSE

\* pandas isna: value_counts() drops these (dropna=True is the default)
isna(v) == v.t = "none"

\* only the labels of SEVERITY_LEVELS are counted
value_counts_EnumOnly(col) ==
  LET labels == {col[i] : i \in 1..Len(col)}
      kept == {l \in labels : l.t = "str" /\ l.s \in Range(SEVERITY_LEVELS)}
  IN [l \in kept |-> Cardinality({i \in 1..Len(col) : col[i] = l})]

\* Series.value_counts().to_dict(): label -> number of rows carrying it
value_counts(col) ==
  LET labels == {col[i] : i \in 1..Len(col)}
      kept == {l \in labels : ~isna(l)}
  IN [l \in kept |-> Cardinality({i \in 1..Len(col) : col[i] = l})]

\* categorize_by_severity(df); df["severity"] raises KeyError without the column
categorize_by_severity(df) ==
  IF "severity" \notin df.columns
  THEN [kind |-> "raise", exc |-> "KeyError", counts |-> value_counts(<<>>)]
  ELSE [kind |-> "return", exc |-> "", counts |-> value_counts(df.severity)]

\* ------------------------------------------------------ argument sets
PatientInputs ==
  { Dict([patient_id |-> a, age |-> b, gender |-> c, enrollment_date |-> d,
          site_id |-> e, consent_signed |-> g]) :
      a \in {VAbsent, VNone, VStr(""), VStr("PAT000001"), VStr("PAT00001")},
      b \in {VAbsent, VNone, VStr(""), VInt(17), VInt(18), VInt(85), VInt(86)},
      c \in {VAbsent, VNone, VStr(""), VStr("F"), VStr("f")},
      d \in {VAbsent, VNone, VStr(""), VStr("2024-01-15"), VStr("2024-01-15T12:00"),
             VStr("2024-01-15T00:00+00:00"), VStr("15/01/2024"), VInt(20240115)},
      e \in {VAbsent, VNone, VStr(""), VStr("SITE001"), VStr("site001")},
      g \in {VAbsent, VNone, VStr(""), VBool(TRUE), VBool(FALSE)} }

EventInputs ==
  { Dict([event_id |-> a, patient_id |-> b, event_date |-> c, description |-> d,
          severity |-> e]) :
      a \in {VAbsent, VNone, VStr(""), VStr("AE001")},
      b \in {VAbsent, VNone, VStr(""), VStr("PAT000001")},
      c \in {VAbsent, VNone, VStr(""), VStr("2024-01-20")},
      d \in {VAbsent, VNone, VStr(""), VStr("Headache")},
      e \in {VAbsent, VNone, VStr("")} \cup {VStr(l) : l \in Range(SEVERITY_LEVELS)}
             \cup {VStr("mild"), VStr("Invalid"), VInt(3)} }

\* arguments that are not mappings: [] and a list holding a field name,
\* a str with and without a field name inside, an int, None
NonMappingInputs ==
  {NonDict("list", {}), NonDict("list", {"enrollment_date"}),
   NonDict("list", {"severity"}), NonDict("str", {}),
   NonDict("str", {"enrollment_date"}), NonDict("str", {"severity"}),
   NonDict("int", {}), NonDict("none", {})}

RECURSIVE SeqsUpTo(_, _)
SeqsUpTo(S, n) ==
  IF n = 0 THEN {<<>>}
  ELSE LET shorter == SeqsUpTo(S, n - 1)
       IN shorter \cup {Append(q, c) : q \in {r \in shorter : Len(r) = n - 1}, c \in S}

ColumnSets == SUBSET (Range(REQUIRED_COLUMNS) \cup {"notes"})

Files ==
  {[columns |-> cols, nrows |-> Len(q), severity |-> q] :
     cols \in {c \in ColumnSets : "severity" \in c},
     q \in SeqsUpTo({"Mild", "Fatal", "mild", ""}, MaxRows)}
  \cup
  {[columns |-> cols, nrows |-> n, severity |-> <<>>] :
     cols \in {c \in ColumnSets : "severity" \notin c}, n \in 0..MaxRows}

\* frames built directly by the caller (pd.DataFrame(...))
Frames ==
  {[columns |-> cols, nrows |-> Len(q), severity |-> q] :
     cols \in {Range(REQUIRED_COLUMNS)},
     q \in SeqsUpTo({VStr("Mild"), VStr("Moderate"), VStr("mild"), VStr(""), VNone},
                    MaxRows)}
  \cup
  {[columns |-> Range(REQUIRED_COLUMNS) \ {"severity"}, nrows |-> n,
    severity |-> <<>>] : n \in 0..MaxRows}

\* ------------------------------------------------------------ the state
VARIABLES
  clock,  \* datetime.now() is Now(clock)
  op,     \* the operation the caller invokes
  arg,    \* the argument the caller holds for it
  calls,  \* how many times op has been called on arg (0, 1 or 2)
  now1,   \* the clock at the first call
  out1,   \* the outcome of the first call
  now2,   \* the clock at the repeated call
  out2    \* the outcome of the repeated call

\* a batch of records validated with one validator instance
VARIABLES
  inst,   \* the attributes of the validator instance
  batch,  \* the records the caller holds, as they are now
  given,  \* the records as the caller built them
  served, \* the indices of the records validated so far
  ncalls, \* how many validation calls the instance has served
  last    \* the last call: index of the record, clock, outcome

batchvars == <<inst, batch, given, served, ncalls, last>>

vars == <<clock, op, arg, calls, now1, out1, now2, out2, batchvars>>

\* PatientValidator.__init__ sets self.validator; AdverseEventProcessor has
\* no instance attribute
NewInstance(kind) ==
  IF kind = "validate"
  THEN [a \in {"validator"} |-> "Draft7Validator(SCHEMA)"]
  ELSE [a \in {} |-> ""]

\* the last outcome kept in an attribute of the instance
AfterCall_KeepsOutcome(self, outcome) ==
  [a \in DOMAIN self \cup {"last_kind"} |->
     IF a = "last_kind" THEN outcome.kind ELSE self[a]]

\* the instance after a call: validate and validate_event assign no
\* attribute of self, errors is a local list
AfterCall(self, outcome) == self

\* the record after a call: both functions only read their argument
RecordAfter(x) == x

NoCall == [i |-> 0, now |-> 0, out |-> NoOutcome]

NoBatch ==
  /\ inst = NewInstance(op)
  /\ batch = <<>>
  /\ given = <<>>
  /\ served = {}
  /\ ncalls = 0
  /\ last = NoCall

\* the caller holds any argument for any of the four operations
Init ==
  /\ clock = 0
  /\ \/ op = "validate" /\ arg \in PatientInputs \cup NonMappingInputs
     \/ op = "validate_event" /\ arg \in EventInputs \cup NonMappingInputs
     \/ op = "load_events" /\ arg \in Files
     \/ op = "categorize_by_severity" /\ arg \in Frames
  /\ calls = 0
  /\ now1 = 0
  /\ out1 = NoOutcome
  /\ now2 = 0
  /\ out2 = NoOutcome
  /\ NoBatch

\* time passes
Tick ==
  /\ clock < MaxClock
  /\ clock' = clock + 1
  /\ UNCHANGED <<op, arg, calls, now1, out1, now2, out2, batchvars>>

FirstCall(outcome) ==
  /\ calls = 0
  /\ calls' = 1
  /\ now1' = clock
  /\ out1' = outcome
  /\ UNCHANGED <<clock, op, arg, now2, out2, batchvars>>

Validate ==
  /\ op = "validate"
  /\ FirstCall(validate(arg, clock))

ValidateEvent ==
  /\ op = "validate_event"
  /\ FirstCall(validate_event(arg))

\* the same call again on the same, unmodified argument
ValidateAgain ==
  /\ op \in {"validate", "validate_event"}
  /\ calls = 1
  /\ calls' = 2
  /\ now2' = clock
  /\ out2' = IF op = "validate" THEN validate(arg, clock) ELSE validate_event(arg)
  /\ UNCHANGED <<clock, op, arg, now1, out1, batchvars>>

LoadEvents ==
  /\ op = "load_events"
  /\ FirstCall(load_events(arg))

CategorizeBySeverity ==
  /\ op = "categorize_by_severity"
  /\ FirstCall(categorize_by_severity(arg))

\* the caller goes on to categorize the frame that load_events returned
CategorizeLoaded ==
  /\ op = "load_events"
  /\ calls = 1
  /\ out1.kind = "return"
  /\ op' = "categorize_by_severity"
  /\ arg' = out1.df
  /\ now1' = clock
  /\ out1' = categorize_by_severity(out1.df)
  /\ UNCHANGED <<clock, calls, now2, out2, batchvars>>

Next ==
  \/ Tick
  \/ Validate
  \/ ValidateEvent
  \/ ValidateAgain
  \/ LoadEvents
  \/ CategorizeBySeverity
  \/ CategorizeLoaded

Spec == Init /\ [][Next]_vars

\* ------------------------------------------------- one instance, a batch
\* patient records that differ in enrollment_date and consent_signed
PatientPool ==
  { Dict([patient_id |-> VStr("PAT000001"), age |-> VInt(18), gender |-> VStr("F"),
          enrollment_date |-> d, site_id |-> VStr("SITE001"), consent_signed |-> g]) :
      d \in {VStr("2024-01-15"), VStr("2024-01-15T12:00"), VStr("15/01/2024"), VNone},
      g \in {VBool(TRUE), VBool(FALSE)} }
  \cup {NonDict("list", {})}

EventPool ==
  { Dict([event_id |-> a, patient_id |-> VStr("PAT000001"),
          event_date |-> VStr("2024-01-20"), description |-> VStr("Headache"),
          severity |-> e]) :
      a \in {VAbsent, VStr("AE001")},
      e \in {VStr("Mild"), VStr("mild"), VNone} }
  \cup {NonDict("list", {})}

BatchesOf(pool) == UNION {[1..n -> pool] : n \in 1..MaxBatch}

\* the caller builds one validator and a batch of records for it
InitBatch ==
  /\ clock = 0
  /\ \/ op = "validate" /\ batch \in BatchesOf(PatientPool)
     \/ op = "validate_event" /\ batch \in BatchesOf(EventPool)
  /\ given = batch
  /\ inst = NewInstance(op)
  /\ served = {}
  /\ ncalls = 0
  /\ last = NoCall
  /\ arg = NonDict("none", {})
  /\ calls = 0
  /\ now1 = 0
  /\ out1 = NoOutcome
  /\ now2 = 0
  /\ out2 = NoOutcome

\* the caller validates any record of the batch, in any order, any record
\* any number of times
ValidateInBatch ==
  /\ ncalls < MaxBatchCalls
  /\ \E i \in 1..Len(batch) :
       LET outcome == IF op = "validate" THEN validate(batch[i], clock)
                      ELSE validate_event(batch[i])
       IN /\ last' = [i |-> i, now |-> clock, out |-> outcome]
          /\ inst' = AfterCall(inst, outcome)
          /\ batch' = [batch EXCEPT ![i] = RecordAfter(batch[i])]
          /\ served' = served \cup {i}
  /\ ncalls' = ncalls + 1
  /\ UNCHANGED <<clock, op, arg, calls, now1, out1, now2, out2, given>>

NextBatch ==
  \/ Tick
  \/ ValidateInBatch

SpecBatch == InitBatch /\ [][NextBatch]_vars

\* ===================================================== properties
Validating == op \in {"validate", "validate_event"}

\* the message mentions field f by name
Mentions(msg, f) == \E i \in 1..Len(msg) : msg[i] = f

\* the required fields of the entity kind being validated
RequiredOf(kind) ==
  IF kind = "validate"
  THEN {"patient_id", "age", "gender", "enrollment_date", "site_id", "consent_signed"}
  ELSE {"event_id", "patient_id", "event_date", "description", "severity"}

\* field f of a mapping is absent, null or the empty string
AbsentNullOrEmpty(x, f) ==
  x.items[f] = VAbsent \/ x.items[f] = VNone \/ x.items[f] = VStr("")

\* C1: whenever validate or validate_event returns, is_valid is true if and
\* only if the returned error list is empty
C1_ValidIffNoErrors ==
  /\ (Validating /\ calls >= 1 /\ out1.kind = "return")
       => (out1.is_valid <=> out1.errors = <<>>)
  /\ (Validating /\ calls = 2 /\ out2.kind = "return")
       => (out2.is_valid <=> out2.errors = <<>>)

\* a record was rejected with errors at one call and accepted with none at
\* the next
C1_Witness ==
  /\ op = "validate" /\ calls = 2
  /\ out1.kind = "return" /\ ~out1.is_valid /\ out1.errors # <<>>
  /\ out2.kind = "return" /\ out2.is_valid /\ out2.errors = <<>>

\* C2: for both kinds and every required field f, a record in which f is
\* absent, null or "" makes validation return is_valid = False with an error
\* that mentions f, whatever the other fields hold
C2_MissingRequiredRejected ==
  (Validating /\ calls >= 1 /\ arg.shape = "dict") =>
    \A f \in RequiredOf(op) :
      AbsentNullOrEmpty(arg, f) =>
        /\ out1.kind = "return"
        /\ ~out1.is_valid
        /\ \E i \in 1..Len(out1.errors) : Mentions(out1.errors[i], f)

\* C3: a record that satisfies every schema constraint and business rule of
\* its kind validates to exactly (True, [])
\* every field of the patient record other than enrollment_date is valid
OtherPatientFieldsValid(x) ==
  /\ x.items["patient_id"] = VStr("PAT000001")
  /\ x.items["site_id"] = VStr("SITE001")
  /\ x.items["age"] \in {VInt(a) : a \in 18..85}
  /\ x.items["gender"] \in {VStr("M"), VStr("F"), VStr("O")}
  /\ x.items["consent_signed"] = VBool(TRUE)

\* 2024-01-15 is midnight of 15 January 2024, which Now(k) has reached for k >= 1
ValidPatientAt(x, k) ==
  /\ OtherPatientFieldsValid(x)
  /\ x.items["enrollment_date"] = VStr("2024-01-15")
  /\ k >= 1

FiveLevels == {"Mild", "Moderate", "Severe", "Life-threatening", "Fatal"}

\* every required field of the event is present, not null and not ""
EventFieldsFilled(x) ==
  \A f \in RequiredOf("validate_event") : ~AbsentNullOrEmpty(x, f)

ValidEvent(x) ==
  /\ EventFieldsFilled(x)
  /\ x.items["severity"] \in {VStr(l) : l \in FiveLevels}

C3_ValidRecordPasses ==
  /\ (op = "validate" /\ calls >= 1 /\ arg.shape = "dict" /\ ValidPatientAt(arg, now1))
       => out1 = Returned(<<>>, TRUE)
  /\ (op = "validate_event" /\ calls >= 1 /\ arg.shape = "dict" /\ ValidEvent(arg))
       => out1 = Returned(<<>>, TRUE)

\* a patient of the minimum age, enrolled at the very instant of the call
C3_Witness ==
  /\ op = "validate" /\ calls = 1 /\ arg.shape = "dict"
  /\ ValidPatientAt(arg, now1) /\ now1 = 1
  /\ arg.items["age"] = VInt(18)
  /\ out1 = Returned(<<>>, TRUE)

\* C4 as stated: two calls on the same unmodified record give identical
\* results, whatever the two invocation times
C4_IdempotentAnyTimes ==
  (Validating /\ calls = 2) => out1 = out2

\* the enrollment_date of the record, read as a naive datetime, is strictly
\* after Now(k): 2024-01-15 is after Now(0) only, 2024-01-15T12:00 after
\* Now(0) and Now(1)
EnrollmentAfter(x, k) ==
  \/ x.items["enrollment_date"] = VStr("2024-01-15") /\ k < 1
  \/ x.items["enrollment_date"] = VStr("2024-01-15T12:00") /\ k < 2

\* C4 amended: validate_event is idempotent for any two invocation times;
\* validate is idempotent unless enrollment_date is strictly after
\* datetime.now() at one of the two calls and not at the other
C4_IdempotentSameSideOfNow ==
  (Validating /\ calls = 2) =>
    \/ out1 = out2
    \/ /\ op = "validate" /\ arg.shape = "dict"
       /\ EnrollmentAfter(arg, now1) # EnrollmentAfter(arg, now2)

\* two calls at different times, the enrollment date in the future at both,
\* returned the same rejection
C4_Witness ==
  /\ op = "validate" /\ calls = 2 /\ arg.shape = "dict"
  /\ now1 < now2
  /\ EnrollmentAfter(arg, now1) /\ EnrollmentAfter(arg, now2)
  /\ out1.kind = "return" /\ ~out1.is_valid
  /\ out1 = out2

\* the enrollment_date of the record, read as a naive datetime, is Now(k)
EnrollmentEqualsNow(x, k) ==
  x.items["enrollment_date"] = VStr("2024-01-15") /\ k = 1

C6_UnsignedConsentRejected ==
  (op = "validate" /\ calls >= 1 /\ arg.shape = "dict") =>
    /\ arg.items["consent_signed"] = VBool(FALSE)
         => (out1.kind = "return" /\ ~out1.is_valid)
    /\ ValidPatientAt(arg, now1) => out1 = Returned(<<>>, TRUE)

\* C7: an adverse event with every required field present and non-empty
\* passes if and only if its severity is, case-sensitively, one of the five
\* levels
C7_SeverityEnum ==
  (op = "validate_event" /\ calls >= 1 /\ arg.shape = "dict" /\ EventFieldsFilled(arg)) =>
    /\ out1.kind = "return"
    /\ out1.is_valid <=> arg.items["severity"] \in {VStr(l) : l \in FiveLevels}

\* the lowercase variant of a level was rejected
C7_Witness ==
  /\ op = "validate_event" /\ calls >= 1 /\ arg.shape = "dict"
  /\ EventFieldsFilled(arg)
  /\ arg.items["severity"] = VStr("mild")
  /\ out1.kind = "return" /\ ~out1.is_valid

\* the sum of the counts of a label -> count mapping
RECURSIVE SumCounts(_)
SumCounts(d) ==
  IF DOMAIN d = {} THEN 0
  ELSE LET l == CHOOSE k \in DOMAIN d : TRUE
       IN d[l] + SumCounts([k \in DOMAIN d \ {l} |-> d[k]])

\* the rows of the frame whose severity is not null
LabelledRows(df) == {i \in 1..Len(df.severity) : df.severity[i] # VNone}

\* C8 as stated: the counts returned by categorize_by_severity add up to
\* the number of rows of the batch and every row, a row with a null severity
\* included, falls in a bucket
C8_CountsCoverAllRows ==
  (op = "categorize_by_severity" /\ calls >= 1 /\ out1.kind = "return") =>
    /\ SumCounts(out1.counts) = arg.nrows
    /\ \A i \in 1..Len(arg.severity) : arg.severity[i] \in DOMAIN out1.counts

\* C8 amended: the counts add up to the number of rows whose severity is
\* not null; each such row falls in the bucket of its label and a row with
\* a null severity falls in no bucket
C8_CountsCoverLabelledRows ==
  (op = "categorize_by_severity" /\ calls >= 1 /\ out1.kind = "return") =>
    /\ SumCounts(out1.counts) = Cardinality(LabelledRows(arg))
    /\ \A i \in LabelledRows(arg) : arg.severity[i] \in DOMAIN out1.counts
    /\ VNone \notin DOMAIN out1.counts

\* a batch with labelled rows and a null row was counted
C8_Witness ==
  /\ op = "categorize_by_severity" /\ calls >= 1 /\ out1.kind = "return"
  /\ Cardinality(LabelledRows(arg)) >= 2
  /\ Cardinality(LabelledRows(arg)) < arg.nrows
  /\ SumCounts(out1.counts) = Cardinality(LabelledRows(arg))

\* the required columns the source lacks
FiveColumns == {"event_id", "patient_id", "event_date", "description", "severity"}
LackingColumns(file) == {c \in FiveColumns : c \notin file.columns}

\* what load_events does on a batch source, failing with exception exc
LoadContract(exc) ==
  (op = "load_events" /\ calls >= 1) =>
    IF LackingColumns(arg) # {}
    THEN /\ out1.kind = "raise" /\ out1.exc = exc
         /\ out1.named = LackingColumns(arg)
         /\ out1.df = NoFrame
    ELSE /\ out1.kind = "return"
         /\ out1.df.columns = arg.columns
         /\ out1.df.nrows = arg.nrows
         /\ Len(out1.df.severity) = arg.nrows

\* C9 as stated: a source lacking a required column makes load_events fail
\* with SchemaMismatchError naming every missing column and returning
\* nothing; otherwise the load returns all rows
C9_SchemaMismatchError == LoadContract("SchemaMismatchError")

\* C9 amended: the failure is a ValueError whose message names every missing
\* column
C9_ValueErrorNamesMissing == LoadContract("ValueError")

\* a source with rows, lacking two required columns, was refused
C9_Witness ==
  /\ op = "load_events" /\ calls >= 1
  /\ Cardinality(LackingColumns(arg)) = 2 /\ arg.nrows > 0
  /\ "notes" \in arg.columns
  /\ out1.kind = "raise" /\ out1.named = LackingColumns(arg)

\* C10: an argument that is not a mapping makes validate / validate_event
\* fail with MalformedInputError, never return a validation result and never
\* fail with another exception
C10_MalformedInputError ==
  (Validating /\ calls >= 1 /\ arg.shape # "dict") =>
    (out1.kind = "raise" /\ out1.exc = "MalformedInputError")

\* C11: on a mapping, whatever fields are absent and whatever the type of
\* each present value, validate / validate_event returns a result and never
\* raises
C11_MappingNeverRaises ==
  (Validating /\ calls >= 1 /\ arg.shape = "dict") => out1.kind = "return"

\* the values of a patient field that meet its schema constraint (type,
\* pattern, enum, bounds, date format)
Conforming(f) ==
  CASE f = "patient_id" -> {VStr("PAT000001")}
    [] f = "age" -> {VInt(a) : a \in 18..85}
    [] f = "gender" -> {VStr("M"), VStr("F"), VStr("O")}
    [] f = "enrollment_date" -> {VStr("2024-01-15")}
    [] f = "site_id" -> {VStr("SITE001")}
    [] f = "consent_signed" -> {VBool(TRUE), VBool(FALSE)}

\* field f is present in the patient record and violates its constraint
ViolatesSchema(x, f) == x.items[f] # VAbsent /\ x.items[f] \notin Conforming(f)

\* C12: a patient record in which a present field violates its schema
\* constraint is returned invalid with an error that mentions that field
C12_SchemaViolationReported ==
  (op = "validate" /\ calls >= 1 /\ arg.shape = "dict") =>
    \A f \in RequiredOf("validate") :
      ViolatesSchema(arg, f) =>
        /\ out1.kind = "return"
        /\ ~out1.is_valid
        /\ \E i \in 1..Len(out1.errors) : Mentions(out1.errors[i], f)

\* the checks a record violates at clock k, as <<field, check>> pairs
ViolatedChecks(kind, x, k) ==
  IF kind = "validate"
  THEN {<<f, "required">> : f \in {g \in RequiredOf(kind) : x.items[g] = VAbsent}}
         \cup {<<f, "schema">> : f \in {g \in RequiredOf(kind) : ViolatesSchema(x, g)}}
         \cup (IF EnrollmentAfter(x, k) THEN {<<"enrollment_date", "future">>} ELSE {})
         \cup (IF x.items["consent_signed"] = VBool(FALSE)
               THEN {<<"consent_signed", "consent">>} ELSE {})
  ELSE {<<f, "required">> : f \in {g \in RequiredOf(kind) : AbsentNullOrEmpty(x, g)}}
         \cup (IF /\ x.items["severity"] # VAbsent
                  /\ x.items["severity"] \notin {VStr(l) : l \in FiveLevels}
               THEN {<<"severity", "enum">>} ELSE {})

\* C13: validation never short-circuits: a record that violates k checks is
\* returned with an entry for each of them, at least k entries in all
C13_AllViolationsReported ==
  (Validating /\ calls >= 1 /\ arg.shape = "dict") =>
    LET violated == ViolatedChecks(op, arg, now1)
    IN violated # {} =>
         /\ out1.kind = "return"
         /\ Len(out1.errors) >= Cardinality(violated)
         /\ \A c \in violated :
              \E i \in 1..Len(out1.errors) : Mentions(out1.errors[i], c[1])

\* the message starts with the name of one of the fields, then ": "
FieldFirst(e, fields) == Len(e) >= 3 /\ e[1] \in fields /\ e[2] = ": "

\* the adverse event of the scenario: all fields present, severity "Invalid"
ScenarioEvent ==
  Dict([event_id |-> VStr("AE001"), patient_id |-> VStr("PAT000001"),
        event_date |-> VStr("2024-01-20"), description |-> VStr("Headache"),
        severity |-> VStr("Invalid")])

\* C14 as stated: every returned error message is "<field>: <reason>",
\* starting with the name of the offending field, and the scenario event
\* yields exactly (False, ["severity: Invalid severity: Invalid"])
C14_FieldPrefixedMessages ==
  (Validating /\ calls >= 1 /\ out1.kind = "return") =>
    /\ \A i \in 1..Len(out1.errors) : FieldFirst(out1.errors[i], RequiredOf(op))
    /\ arg = ScenarioEvent =>
         out1 = Returned(<< <<"severity", ": ", "Invalid ", "severity", ": ", "Invalid">> >>,
                         FALSE)

\* "<field>: <reason>", the form of the two patient business rules
RuleForm(e) == FieldFirst(e, {"enrollment_date", "consent_signed"})

\* "$.<field>: <reason>", the form of a schema error on a present field
PropertyForm(e) ==
  /\ Len(e) >= 5
  /\ e[1] = "$" /\ e[2] = "." /\ e[3] \in RequiredOf("validate") /\ e[4] = ": "

\* "$: '<field>' is a required property", the form of a missing key
RequiredForm(e) ==
  \E f \in RequiredOf("validate") :
    e = <<"$", ": ", "'", f, "'", " is a required property">>

\* "Missing required field: <field>" and "Invalid severity: <value>"
EventForm(e, x) ==
  \/ \E f \in RequiredOf("validate_event") : e = <<"Missing required field", ": ", f>>
  \/ /\ x.shape = "dict"
     /\ e = <<"Invalid ", "severity", ": ", Str(x.items["severity"])>>

\* C14 amended: a patient rule message is "<field>: <reason>", a patient
\* schema message is "$.<field>: <reason>" or "$: '<field>' is a required
\* property", an event message is "Missing required field: <field>" or
\* "Invalid severity: <value>"; the scenario event yields exactly
\* (False, ["Invalid severity: Invalid"])
C14_MessageForms ==
  (Validating /\ calls >= 1 /\ out1.kind = "return") =>
    /\ op = "validate" =>
         \A i \in 1..Len(out1.errors) :
           \/ RuleForm(out1.errors[i])
           \/ PropertyForm(out1.errors[i])
           \/ RequiredForm(out1.errors[i])
    /\ op = "validate_event" =>
         \A i \in 1..Len(out1.errors) : EventForm(out1.errors[i], arg)
    /\ arg = ScenarioEvent =>
         out1 = Returned(<< <<"Invalid ", "severity", ": ", "Invalid">> >>, FALSE)

\* the scenario event was validated
C14_Witness ==
  /\ op = "validate_event" /\ calls >= 1
  /\ arg = ScenarioEvent
  /\ out1.kind = "return" /\ Len(out1.errors) = 1

\* the labels that occur in the severity column of the frame
ObservedLabels(df) == {df.severity[i] : i \in LabelledRows(df)}

\* C15: categorize_by_severity maps each label that occurs in the batch,
\* canonical or not, to the number of rows carrying it, and has no other key
C15_LiteralLabelsCounted ==
  (op = "categorize_by_severity" /\ calls >= 1 /\ out1.kind = "return") =>
    /\ DOMAIN out1.counts = ObservedLabels(arg)
    /\ \A l \in ObservedLabels(arg) :
         out1.counts[l] = Cardinality({i \in 1..Len(arg.severity) : arg.severity[i] = l})

\* a batch with two rows labelled "mild" and one canonical row was counted
C15_Witness ==
  /\ op = "categorize_by_severity" /\ calls >= 1 /\ out1.kind = "return"
  /\ ObservedLabels(arg) = {VStr("mild"), VStr("Mild")}
  /\ out1.counts[VStr("mild")] = 2
  /\ out1.counts[VStr("Mild")] = 1

\* the position of a column in the required-column order
ColumnIndex(f) ==
  CASE f = "event_id" -> 1 [] f = "patient_id" -> 2 [] f = "event_date" -> 3
    [] f = "description" -> 4 [] f = "severity" -> 5

IsMissingMessage(e) == Len(e) = 3 /\ e[1] = "Missing required field"
IsSeverityMessage(e) == Len(e) = 4 /\ e[1] = "Invalid " /\ e[2] = "severity"

\* C16: in a returned error list the schema errors come before the
\* business-rule errors (patient: jsonschema errors, then the
\* enrollment_date rule, then the consent rule; event: missing-field errors
\* in required-column order, then the invalid-severity error), and a schema
\* error and a business error on the same field are both kept
C16_SchemaBeforeRules ==
  (Validating /\ calls >= 1 /\ out1.kind = "return") =>
    LET es == out1.errors
    IN /\ op = "validate" =>
            \A i, j \in 1..Len(es) :
              i < j =>
                /\ ~(RuleForm(es[i]) /\ es[j][1] = "$")
                /\ ~(es[i][1] = "consent_signed" /\ es[j][1] = "enrollment_date")
       /\ op = "validate_event" =>
            \A i, j \in 1..Len(es) :
              i < j =>
                /\ ~(IsSeverityMessage(es[i]) /\ IsMissingMessage(es[j]))
                /\ (IsMissingMessage(es[i]) /\ IsMissingMessage(es[j]))
                     => ColumnIndex(es[i][3]) < ColumnIndex(es[j][3])
       /\ (op = "validate_event" /\ arg.shape = "dict"
             /\ arg.items["severity"] \in {VNone, VStr("")}) =>
            /\ \E i \in 1..Len(es) : es[i] = <<"Missing required field", ": ", "severity">>
            /\ \E i \in 1..Len(es) : IsSeverityMessage(es[i])

\* a patient record was returned with schema errors, then the future-date
\* error, then the consent error
C16_Witness ==
  /\ op = "validate" /\ calls >= 1 /\ out1.kind = "return"
  /\ Len(out1.errors) >= 4
  /\ \A i \in 1..(Len(out1.errors) - 2) : out1.errors[i][1] = "$"
  /\ out1.errors[Len(out1.errors) - 1][1] = "enrollment_date"
  /\ out1.errors[Len(out1.errors)][1] = "consent_signed"

====
